---- MODULE Spec2Model ----
(***************************************************************************)
(* A model of simclient: the ARN value (client.py), the ClientMaker region *)
(* probe (client.py), and the policy aggregation / simulation engine       *)
(* (policy.py): merge_policy_dicts, PolicyContainer and SimulatedClient.   *)
(*                                                                         *)
(* Python strings that the code splits, joins, lower-cases or concatenates *)
(* are sequences of one-character strings.  JSON text is a sequence of     *)
(* tokens, so that json.dumps and json.loads are real conversions.         *)
(***************************************************************************)
EXTENDS Integers, Sequences, FiniteSets, TLC

VARIABLES
    \* ---- ARN.from_string / ARN.__str__ (client.py)
    arnIn,        \* the string handed to ARN.from_string
    arnPc,        \* "idle" | "input" | "parsed" | "rendered" | "IndexError" | "TypeError"
    arnObj,       \* the ARN instance built by from_string (NoARN before / on error)
    arnOut,       \* str(arnObj)
    \* ---- merge_policy_dicts (policy.py)
    mergeIn,      \* the list handed to merge_policy_dicts
    mergePc,      \* "idle" | "input" | "done"
    mergeOut,     \* the returned document
    \* ---- ClientMaker.is_region_available (client.py)
    idCache,      \* lru_cache of _get_caller_identity: the region keys that are cached
    regionArg,    \* the region of the last probe
    stsOutcome,   \* how the identity call of the last probe ended
    regionRet,    \* how the last probe ended: "True" | "False" | "Exception" | "OtherError"
    stsCalls,     \* number of STS requests sent so far
    \* ---- PolicyContainer / SimulatedClient (policy.py)
    env,          \* the account state and arguments of the last construction
    built,        \* "none" | "ok" | "NotImplementedError" | "SourceUnavailableError" | ...
    container,    \* the PolicyContainer instance (NoContainer when none)
    calls,        \* the collaborator fetches issued by the last construction, in order
    mergeCalls,   \* the argument lists merge_policy_dicts was invoked with by the last construction
    client,       \* the SimulatedClient instance (NoClient when none)
    op,           \* the last operation: its kind, inputs and how it ended
    oracleLog,    \* the simulate_custom_policy requests issued by the last operation
    prevDisp      \* the dispatched call before the last one that sent a request: its name, arguments, request

arnVars    == <<arnIn, arnPc, arnObj, arnOut>>
mergeVars  == <<mergeIn, mergePc, mergeOut>>
regionVars == <<idCache, regionArg, stsOutcome, regionRet, stsCalls>>
pcVars     == <<env, built, container, calls, mergeCalls, client, op, oracleLog, prevDisp>>
vars       == <<arnVars, mergeVars, regionVars, pcVars>>

(***************************************************************************)
(* Bounds of the model.                                                    *)
(***************************************************************************)
MaxArnLen == 7      \* longest enumerated identity string
MaxDocs   == 2      \* longest list handed to merge_policy_dicts
MaxStmts  == 2      \* most statements in one enumerated policy document
MaxSts    == 3      \* STS requests counted by the region probe model

(***************************************************************************)
(* Python str helpers.                                                     *)
(***************************************************************************)
SeqsUpTo(S, n) == UNION {[1..k -> S] : k \in 0..n}

\* the letters the model uses that str.lower() changes
UpperToLower == [c \in {"R", "M", "U", "E", "C", "S"} |->
                   CASE c = "R" -> "r" [] c = "M" -> "m" [] c = "U" -> "u"
                     [] c = "E" -> "e" [] c = "C" -> "c" [] c = "S" -> "s"]

LowerChar(c) == IF c \in DOMAIN UpperToLower THEN UpperToLower[c] ELSE c

\* str.lower()
Lower(s) == [i \in 1..Len(s) |-> LowerChar(s[i])]

\* c in s
Contains(s, c) == \E i \in 1..Len(s) : s[i] = c

\* index of the first c in s, 0 when there is none
RECURSIVE FindFrom(_, _, _)
FindFrom(s, c, i) ==
    IF i > Len(s) THEN 0
    ELSE IF s[i] = c THEN i
    ELSE FindFrom(s, c, i + 1)

\* s.split(c): always at least one part
RECURSIVE Split(_, _)
Split(s, c) ==
    LET i == FindFrom(s, c, 1) IN
    IF i = 0 THEN <<s>>
    ELSE <<SubSeq(s, 1, i - 1)>> \o Split(SubSeq(s, i + 1, Len(s)), c)

\* c.join(parts)
RECURSIVE Join(_, _)
Join(parts, c) ==
    IF Len(parts) = 0 THEN <<>>
    ELSE IF Len(parts) = 1 THEN parts[1]
    ELSE parts[1] \o <<c>> \o Join(Tail(parts), c)

(***************************************************************************)
(* client.py: split_arn_string, ARN                                        *)
(***************************************************************************)
NoARN == [none |-> TRUE]

\* a dataclass field left at its default None; an f-string renders it "None"
NoneField == <<"<None>">>
FieldStr(f) == IF f = NoneField THEN <<"N", "o", "n", "e">> ELSE f

\* split_arn_string keeping only the first segment after the type (not the code)
split_arn_string_first(arn) ==
    LET parts == Split(arn, ":") IN
    IF Len(parts) = 6
    THEN IF Contains(parts[6], "/")
         THEN LET resource == Split(parts[6], "/") IN
              [err |-> "none",
               parts |-> [parts EXCEPT ![6] = Lower(resource[1])] \o <<resource[2]>>]
         ELSE [err |-> "IndexError", parts |-> parts]
    ELSE [err |-> "none", parts |-> parts]

\* split_arn_string: parts[6] = "" on a 6-element list is an IndexError
split_arn_string(arn) ==
    LET parts == Split(arn, ":") IN
    IF Len(parts) = 6
    THEN IF Contains(parts[6], "/")
         THEN LET resource == Split(parts[6], "/") IN
              [err |-> "none",
               parts |-> [parts EXCEPT ![6] = Lower(resource[1])]
                           \o <<Join(Tail(resource), "/")>>]
         ELSE [err |-> "IndexError", parts |-> parts]
    ELSE [err |-> "none", parts |-> parts]

\* the dataclass constructor cls(*parts): at most 7 positional fields
ARN(parts) ==
    LET f(i) == IF i <= Len(parts) THEN parts[i] ELSE NoneField IN
    [prefix |-> f(1), partition |-> f(2), service |-> f(3), region |-> f(4),
     account_id |-> f(5), resource_type |-> f(6), resource_id |-> f(7)]

\* ARN.from_string
from_string(arn) ==
    LET sp == split_arn_string(arn) IN
    IF sp.err # "none" THEN [err |-> sp.err, arn |-> NoARN]
    ELSE IF Len(sp.parts) > 7 THEN [err |-> "TypeError", arn |-> NoARN]
    ELSE [err |-> "none", arn |-> ARN(sp.parts)]

\* ARN.__str__
ArnStr(a) ==
    FieldStr(a.prefix) \o <<":">> \o FieldStr(a.partition) \o <<":">>
      \o FieldStr(a.service) \o <<":">> \o FieldStr(a.region) \o <<":">>
      \o FieldStr(a.account_id) \o <<":">> \o FieldStr(a.resource_type)
      \o <<"/">> \o FieldStr(a.resource_id)

ArnAlphabet == {":", "/", "a", "R"}

ExampleArn ==
    <<"a","r","n",":","a","w","s",":","i","a","m",":",":",
      "1","2","3","4","5","6","7","8","9","0","1","2",":",
      "r","o","l","e","/","M","y","R","o","l","e">>

(***************************************************************************)
(* Policy documents.  A document is a dict (type "dict") or serialized     *)
(* JSON text (type "str").  Statements are opaque values.                  *)
(***************************************************************************)
NoDoc == [type |-> "none"]

Versions   == {"2012-10-17", "2008-10-17"}
Statements == {"stmtA", "stmtB"}

DictDoc(v, stmts) == [type |-> "dict", Version |-> v, Statement |-> stmts]
StrDoc(text)      == [type |-> "str", text |-> text]

\* json.dumps of a document dict: keys in insertion order
json_dumps(d) ==
    <<"{", "Version", ":", d.Version, ",", "Statement", ":", "[">>
      \o d.Statement \o <<"]", "}">>

\* json.loads of the text of a document
json_loads(text) ==
    DictDoc(text[4], SubSeq(text, 9, Len(text) - 2))

\* merge_policy_dicts that forgets to deserialize text documents (not the code)
RECURSIVE merge_policy_dicts_skip_str(_)
merge_policy_dicts_skip_str(policies) ==
    IF policies = <<>> THEN DictDoc("2012-10-17", <<>>)
    ELSE LET rest   == merge_policy_dicts_skip_str(Tail(policies))
             policy == Head(policies)
         IN IF policy.type = "str" THEN rest
            ELSE DictDoc("2012-10-17", policy.Statement \o rest.Statement)

\* the loop of merge_policy_dicts: the statements gathered from policies[i..]
RECURSIVE merged_statements(_)
merged_statements(policies) ==
    IF policies = <<>> THEN <<>>
    ELSE LET policy == IF Head(policies).type = "str"
                       THEN json_loads(Head(policies).text)
                       ELSE Head(policies)
         IN policy.Statement \o merged_statements(Tail(policies))

\* merge_policy_dicts
merge_policy_dicts(policies) ==
    DictDoc("2012-10-17", merged_statements(policies))

StmtLists  == SeqsUpTo(Statements, MaxStmts)
DictDocs   == {DictDoc(v, st) : v \in Versions, st \in StmtLists}
StrDocs    == {StrDoc(json_dumps(d)) : d \in DictDocs}
MergeInputs == SeqsUpTo(DictDocs \cup StrDocs, MaxDocs)

(***************************************************************************)
(* The account the PolicyContainer reads: what a construction is given.    *)
(***************************************************************************)
S_arn  == <<"a", "r", "n">>
S_aws  == <<"a", "w", "s">>
S_iam  == <<"i", "a", "m">>
S_sts  == <<"s", "t", "s">>
S_user == <<"u", "s", "e", "r">>
S_role == <<"r", "o", "l", "e">>
S_group == <<"g", "r", "o", "u", "p">>
S_assumed_role == <<"a", "s", "s", "u", "m", "e", "d", "-", "r", "o", "l", "e">>
S_root == <<"r", "o", "o", "t">>

AccountIds == {<<>>, <<"1", "1">>}
CallerAccount == <<"9", "9">>     \* cm.account_number, from STS

\* ARN instances handed to PolicyContainer directly
ContainerArns ==
    {[prefix |-> S_arn, partition |-> S_aws, service |-> S_iam, region |-> <<>>,
      account_id |-> acct, resource_type |-> rt, resource_id |-> <<"a">>] :
        acct \in AccountIds, rt \in {S_user, S_role, S_group}}

\* caller identity strings STS may report to a SimulatedClient
CallerArnStrs ==
    {Join(<<S_arn, S_aws, S_iam, <<>>, CallerAccount, S_user \o <<"/", "a">> >>, ":"),
     Join(<<S_arn, S_aws, S_iam, <<>>, CallerAccount, <<"U">> \o Tail(S_user) \o <<"/", "a">> >>, ":"),
     Join(<<S_arn, S_aws, S_iam, <<>>, CallerAccount, S_role \o <<"/", "p", "/", "a">> >>, ":"),
     Join(<<S_arn, S_aws, S_sts, <<>>, CallerAccount, S_assumed_role \o <<"/", "a", "/", "s">> >>, ":"),
     Join(<<S_arn, S_aws, S_iam, <<>>, CallerAccount, S_root>>, ":")}

DocA == DictDoc("2012-10-17", <<"stmtA">>)
DocB == DictDoc("2008-10-17", <<"stmtB", "stmtA">>)
DocC == DictDoc("2012-10-17", <<"stmtC">>)
DocG == DictDoc("2012-10-17", <<"stmtG">>)
DocH == DictDoc("2012-10-17", <<"stmtH">>)
DocP == DictDoc("2012-10-17", <<"stmtP", "stmtA">>)
ScpS == StrDoc(json_dumps(DictDoc("2012-10-17", <<"stmtS">>)))
ScpT == StrDoc(json_dumps(DictDoc("2012-10-17", <<"stmtT", "stmtS">>)))

\* an IAM group: its attached and inline policy documents
Group(att, inl) == [attached |-> att, inline |-> inl]

AttachedChoices == {<<>>, <<DocA, DocB>>}
InlineChoices   == {<<>>, <<DocC>>}
GroupChoices    == {<<>>, <<Group(<<DocG>>, <<>>)>>,
                    <<Group(<<>>, <<>>), Group(<<DocG>>, <<DocH>>)>>}
BoundaryChoices == {NoDoc, DocP}
ScpChoices      == {<<>>, <<ScpS>>, <<ScpS, ScpT>>}

Call(api, target) == [api |-> api, target |-> target]

NoEnv == [none |-> TRUE]

\* arn: the identity; attached/inline/groups/boundary: what IAM holds for it;
\* scps: what Organizations holds for the queried target; fail: the position
\* of the request that the collaborator fails (0: all succeed)
Env(arn, collect, att, inl, grps, bnd, scps, fail) ==
    [arn |-> arn, collect_scps |-> collect, attached |-> att, inline |-> inl,
     groups |-> grps, boundary |-> bnd, scps |-> scps, fail |-> fail,
     account_number |-> CallerAccount]

EnvsFor(arn, collect) ==
    {Env(arn, collect, att, inl, grps, bnd, scps, 0) :
        att \in AttachedChoices, inl \in InlineChoices,
        grps \in (IF arn.resource_type = S_user THEN GroupChoices ELSE {<<>>}),
        bnd \in BoundaryChoices,
        scps \in (IF collect THEN ScpChoices ELSE {<<>>})}

(***************************************************************************)
(* policy.py: arn_to_iam_resource and the document getters                 *)
(***************************************************************************)
\* arn_to_iam_resource whose else branch returns a Role (not the code)
arn_to_iam_resource_else_role(arn) ==
    IF arn.resource_type = S_user THEN [err |-> "none", kind |-> "User"]
    ELSE [err |-> "none", kind |-> "Role"]

\* arn_to_iam_resource: creating the resource object sends no request
arn_to_iam_resource(arn) ==
    IF arn.resource_type = S_user THEN [err |-> "none", kind |-> "User"]
    ELSE IF arn.resource_type = S_role THEN [err |-> "none", kind |-> "Role"]
    ELSE [err |-> "NotImplementedError", kind |-> "none"]

\* get_policy_documents_for_resource: attached documents, then inline ones
get_policy_documents_for_resource(att, inl) == att \o inl

get_policy_documents_calls(prefix) ==
    <<Call(prefix \o "attached_policies", <<>>), Call(prefix \o "inline_policies", <<>>)>>

\* the loop of get_group_policy_documents_for_resource: the local list it fills
RECURSIVE group_policies_gathered(_)
group_policies_gathered(grps) ==
    IF grps = <<>> THEN <<>>
    ELSE get_policy_documents_for_resource(Head(grps).attached, Head(grps).inline)
           \o group_policies_gathered(Tail(grps))

\* get_group_policy_documents_for_resource: fills the local list policies
\* for a resource that has groups, then returns a fresh [] instead of it
get_group_policy_documents_for_resource(kind, grps) ==
    LET policies == IF kind = "User" THEN group_policies_gathered(grps) ELSE <<>>
    IN <<>>

RECURSIVE group_calls(_)
group_calls(grps) ==
    IF grps = <<>> THEN <<>>
    ELSE get_policy_documents_calls("group_") \o group_calls(Tail(grps))

\* hasattr(resource, "groups"): only iam.User has the collection
get_group_policy_documents_calls(kind, grps) ==
    IF kind = "User" THEN <<Call("groups", <<>>)>> \o group_calls(grps) ELSE <<>>

\* get_scps_for_account: one listing for the target, one describe per SCP
get_scps_for_account_calls(account_number, scps) ==
    <<Call("list_policies_for_target", account_number)>>
      \o [i \in 1..Len(scps) |-> Call("describe_policy", <<>>)]

(***************************************************************************)
(* policy.py: PolicyContainer                                              *)
(***************************************************************************)
NoContainer == [none |-> TRUE]

\* a Python value that is None or a list
PyNone     == [is_none |-> TRUE, list |-> <<>>]
PyList(l)  == [is_none |-> FALSE, list |-> l]

\* the restrict-side value built without the emptiness test (not the code)
negative_policies_always_merged(negative_policies) ==
    PyList(<<merge_policy_dicts(negative_policies)>>)

\* self.negative_policies: one merged document, or None for no candidates
negative_policies_value(negative_policies) ==
    IF Len(negative_policies) > 0
    THEN PyList(<<merge_policy_dicts(negative_policies)>>)
    ELSE PyNone

\* the invocations of merge_policy_dicts made for self.negative_policies
negative_policies_merges(negative_policies) ==
    IF negative_policies_value(negative_policies).is_none
    THEN <<>> ELSE <<negative_policies>>

\* the requests __init__ issues when every one of them succeeds, in order;
\* cached: the caller identity is already in the lru_cache of the ClientMaker
init_calls(e, kind, cached) ==
    get_policy_documents_calls("")
      \o get_group_policy_documents_calls(kind, e.groups)
      \o <<Call("load", <<>>)>>
      \o (IF e.boundary # NoDoc THEN <<Call("boundary_document", <<>>)>> ELSE <<>>)
      \o (IF e.collect_scps
          THEN (IF e.arn.account_id = <<>> /\ ~cached
                THEN <<Call("get_caller_identity", <<>>)>> ELSE <<>>)
                 \o get_scps_for_account_calls(e.arn.account_id, e.scps)
          ELSE <<>>)

\* the number of requests __init__ would issue if none failed
NumCalls(e, cached) ==
    LET resource == arn_to_iam_resource(e.arn) IN
    IF resource.err # "none" THEN 0 ELSE Len(init_calls(e, resource.kind, cached))

\* PolicyContainer.__init__
PolicyContainerInit(e, cached) ==
    LET resource == arn_to_iam_resource(e.arn) IN
    IF resource.err # "none"
    THEN [built |-> resource.err, container |-> NoContainer,
          calls |-> <<>>, mergeCalls |-> <<>>]
    ELSE
      LET steps    == init_calls(e, resource.kind, cached)
          failed   == e.fail
          policies == get_policy_documents_for_resource(e.attached, e.inline)
                        \o get_group_policy_documents_for_resource(resource.kind, e.groups)
          negative_policies ==
              (IF e.boundary # NoDoc THEN <<e.boundary>> ELSE <<>>)
                \o (IF e.collect_scps THEN e.scps ELSE <<>>)
      IN IF failed > 0
         THEN [built |-> "SourceUnavailableError", container |-> NoContainer,
               calls |-> SubSeq(steps, 1, failed), mergeCalls |-> <<>>]
         ELSE [built |-> "ok",
               container |-> [policies |-> policies,
                              negative_policies |-> negative_policies_value(negative_policies),
                              arn |-> e.arn],
               calls |-> steps,
               mergeCalls |-> negative_policies_merges(negative_policies)]

\* the arguments of one simulate_custom_policy request
Request(pil, names, pbl, caller, extra) ==
    [PolicyInputList |-> pil, ActionNames |-> names,
     PermissionsBoundaryPolicyInputList |-> pbl, CallerArn |-> caller, sim_args |-> extra]

\* simulate sending the restrict-side document among the allow policies (not the code)
simulate_request_mixed(c, actions, sim_args) ==
    Request([i \in 1..Len(c.policies) |-> json_dumps(c.policies[i])]
              \o [i \in 1..Len(c.negative_policies.list) |->
                    json_dumps(c.negative_policies.list[i])],
            actions, <<>>, ArnStr(c.arn), sim_args)

\* PolicyContainer.simulate: the request it sends
simulate_request(c, actions, sim_args) ==
    Request([i \in 1..Len(c.policies) |-> json_dumps(c.policies[i])],
            actions,
            IF ~c.negative_policies.is_none /\ Len(c.negative_policies.list) > 0
            THEN [i \in 1..Len(c.negative_policies.list) |->
                    json_dumps(c.negative_policies.list[i])]
            ELSE <<>>,
            ArnStr(c.arn),
            sim_args)

\* PolicyContainer.simulate: what it returns for the oracle's answer;
\* resp.err: the oracle call failed; resp.results: EvaluationResults
simulate_return(resp) ==
    IF resp.err # "none" THEN [err |-> resp.err, ret |-> "none"]
    ELSE IF Len(resp.results) = 0 THEN [err |-> "IndexError", ret |-> "none"]
    ELSE [err |-> "none", ret |-> resp.results[1]]

Decisions == {"allowed", "implicitDeny"}

\* what the oracle can answer a request of n actions: an error, or one
\* evaluation result per action
OracleResponses(n) ==
    {[err |-> "OracleInvocationError", results |-> <<>>]}
      \cup {[err |-> "none", results |-> r] : r \in [1..n -> Decisions]}

(***************************************************************************)
(* policy.py: SimulatedClient                                              *)
(***************************************************************************)
NoClient == [none |-> TRUE]

S_ec2 == <<"e", "c", "2">>
S_EC2 == <<"E", "C", "2">>
S_s3  == <<"s", "3">>
Services == {S_ec2, S_EC2, S_s3}

A_DescribeInstances ==
    <<"D","e","s","c","r","i","b","e","I","n","s","t","a","n","c","e","s">>
A_RunInstances == <<"R","u","n","I","n","s","t","a","n","c","e","s">>
A_ListBuckets  == <<"L","i","s","t","B","u","c","k","e","t","s">>
A_GetObject    == <<"s","3",":","G","e","t","O","b","j","e","c","t">>
A_Ec2Describe  == S_ec2 \o <<":">> \o A_DescribeInstances

\* the provider's services (names are case-sensitive) and, for each, the
\* meta.method_to_api_mapping of its client
KnownServices == {S_ec2, S_s3}
MethodToApiMapping(service) ==
    IF service = S_ec2
    THEN [m \in {"describe_instances", "run_instances"} |->
            IF m = "describe_instances" THEN A_DescribeInstances ELSE A_RunInstances]
    ELSE [m \in {"list_buckets"} |-> A_ListBuckets]

OperationNames == {"describe_instances", "run_instances", "list_buckets", "no_such_operation"}

\* positional and keyword arguments of a dispatched call
CallArgs(args, kwargs) == [args |-> args, kwargs |-> kwargs]
ArgChoices == {CallArgs(<<>>, {}), CallArgs(<<"i-1">>, {}), CallArgs(<<>>, {"MaxResults"})}

\* simulate_api forwarding its keyword arguments to simulate (not the code)
simulate_api_forward_kwargs(service, operation, a) ==
    IF service \notin KnownServices
    THEN [err |-> "UnknownServiceError", actions |-> <<>>, sim_args |-> {}]
    ELSE IF operation \notin DOMAIN MethodToApiMapping(service)
    THEN [err |-> "KeyError", actions |-> <<>>, sim_args |-> {}]
    ELSE [err |-> "none",
          actions |-> <<Lower(service) \o <<":">> \o MethodToApiMapping(service)[operation]>>,
          sim_args |-> a.kwargs]

\* SimulatedClient.__getattr__.simulate_api: the simulate call it makes
simulate_api(service, operation, a) ==
    IF service \notin KnownServices
    THEN [err |-> "UnknownServiceError", actions |-> <<>>, sim_args |-> {}]
    ELSE IF operation \notin DOMAIN MethodToApiMapping(service)
    THEN [err |-> "KeyError", actions |-> <<>>, sim_args |-> {}]
    ELSE [err |-> "none",
          actions |-> <<Lower(service) \o <<":">> \o MethodToApiMapping(service)[operation]>>,
          sim_args |-> {}]

(***************************************************************************)
(* client.py: ClientMaker.is_region_available                              *)
(***************************************************************************)
Regions == {"us-east-1", "eu-west-1", "ap-south-1", "me-south-1"}
StsOutcomes == {"ok", "ClientError", "OtherError"}

\* the try / except ClientError part: the pending return or exception
try_except_result(outcome) ==
    IF outcome = "ok" THEN "True"
    ELSE IF outcome = "ClientError" THEN "False"
    ELSE outcome

\* finally: raise Exception() replaces whatever is pending
finally_raise(pending) == "Exception"

\* ClientMaker.is_region_available: how the call ends
is_region_available(outcome) == finally_raise(try_except_result(outcome))

(***************************************************************************)
(* Idle values of each part, and the operation record.                     *)
(***************************************************************************)
NoResp == [err |-> "none", results |-> <<>>]
OpIdle == [kind |-> "none", service |-> <<>>, operation |-> "", args |-> CallArgs(<<>>, {}),
           actions |-> <<>>, sim_args |-> {}, resp |-> NoResp, err |-> "none", ret |-> "none"]

NoReq  == [PolicyInputList |-> <<>>, ActionNames |-> <<>>,
           PermissionsBoundaryPolicyInputList |-> <<>>, CallerArn |-> <<>>, sim_args |-> {}]
NoPrev == [operation |-> "", args |-> CallArgs(<<>>, {}), req |-> NoReq]

ArnIdle ==
    /\ arnIn = <<>> /\ arnPc = "idle" /\ arnObj = NoARN /\ arnOut = <<>>
MergeIdle ==
    /\ mergeIn = <<>> /\ mergePc = "idle" /\ mergeOut = NoDoc
RegionIdle ==
    /\ idCache = {} /\ regionArg = "" /\ stsOutcome = "none"
    /\ regionRet = "none" /\ stsCalls = 0
PcIdle ==
    /\ env = NoEnv /\ built = "none" /\ container = NoContainer
    /\ calls = <<>> /\ mergeCalls = <<>> /\ client = NoClient
    /\ op = OpIdle /\ oracleLog = <<>> /\ prevDisp = NoPrev

(***************************************************************************)
(* ARN: parse a string, then render the instance.                          *)
(***************************************************************************)
\* every string over the alphabet up to the bound, and some full identities
ArnInputs == SeqsUpTo(ArnAlphabet, MaxArnLen) \cup {ExampleArn} \cup CallerArnStrs

InitArn ==
    /\ arnIn \in ArnInputs /\ arnPc = "input" /\ arnObj = NoARN /\ arnOut = <<>>
    /\ MergeIdle /\ RegionIdle /\ PcIdle

FromString ==
    /\ arnPc = "input"
    /\ LET r == from_string(arnIn) IN
         /\ arnPc' = IF r.err = "none" THEN "parsed" ELSE r.err
         /\ arnObj' = r.arn
    /\ UNCHANGED <<arnIn, arnOut, mergeVars, regionVars, pcVars>>

Render ==
    /\ arnPc = "parsed"
    /\ arnOut' = ArnStr(arnObj)
    /\ arnPc' = "rendered"
    /\ UNCHANGED <<arnIn, arnObj, mergeVars, regionVars, pcVars>>

NextArn == FromString \/ Render

SpecArn == InitArn /\ [][NextArn]_vars

(***************************************************************************)
(* merge_policy_dicts on an arbitrary list.                                *)
(***************************************************************************)
InitMerge ==
    /\ mergeIn \in MergeInputs /\ mergePc = "input" /\ mergeOut = NoDoc
    /\ ArnIdle /\ RegionIdle /\ PcIdle

Merge ==
    /\ mergePc = "input"
    /\ mergeOut' = merge_policy_dicts(mergeIn)
    /\ mergePc' = "done"
    /\ UNCHANGED <<mergeIn, arnVars, regionVars, pcVars>>

NextMerge == Merge

SpecMerge == InitMerge /\ [][NextMerge]_vars

(***************************************************************************)
(* The region probe of one ClientMaker.                                    *)
(***************************************************************************)
InitRegion == ArnIdle /\ MergeIdle /\ RegionIdle /\ PcIdle

\* _get_caller_identity(region_name=region) answers from the lru_cache when
\* the key is cached, and caches only a successful answer
IsRegionAvailable(region, outcome) ==
    /\ region \in idCache => outcome = "ok"
    /\ region \notin idCache => stsCalls < MaxSts
    /\ regionArg' = region
    /\ stsOutcome' = outcome
    /\ stsCalls' = IF region \in idCache THEN stsCalls ELSE stsCalls + 1
    /\ idCache' = IF outcome = "ok" THEN idCache \cup {region} ELSE idCache
    /\ regionRet' = is_region_available(outcome)
    /\ UNCHANGED <<arnVars, mergeVars, pcVars>>

NextRegion == \E region \in Regions, outcome \in StsOutcomes : IsRegionAvailable(region, outcome)

SpecRegion == InitRegion /\ [][NextRegion]_vars

(***************************************************************************)
(* PolicyContainer and SimulatedClient over an account.                    *)
(***************************************************************************)
Init == ArnIdle /\ MergeIdle /\ RegionIdle /\ PcIdle

ActionLists == {<<>>, <<A_GetObject>>, <<A_Ec2Describe, A_GetObject>>}
SimArgChoices == {{}, {"ResourceArns"}}

\* PolicyContainer(arn, cm, collect_scps) called directly; a behaviour follows
\* the one instance it builds
Construct ==
    /\ built = "none"
    /\ \E arn \in ContainerArns, collect \in BOOLEAN :
         \E e0 \in EnvsFor(arn, collect) :
         \E k \in 0..NumCalls(e0, FALSE) :
           LET e == [e0 EXCEPT !.fail = k]
               r == PolicyContainerInit(e, FALSE)
           IN
             /\ env' = e
             /\ built' = r.built
             /\ container' = r.container
             /\ calls' = r.calls
             /\ mergeCalls' = r.mergeCalls
    /\ client' = NoClient
    /\ op' = [OpIdle EXCEPT !.kind = "construct"]
    /\ oracleLog' = <<>>
    /\ prevDisp' = NoPrev
    /\ UNCHANGED <<arnVars, mergeVars, regionVars>>

\* SimulatedClient(service, collect_scps): parses the caller identity that
\* STS reports, then builds the PolicyContainer for it
NewSimulatedClient ==
    /\ built = "none"
    /\ \E service \in Services, collect \in BOOLEAN, s \in CallerArnStrs :
         LET parsed == from_string(s) IN
           /\ op' = [OpIdle EXCEPT !.kind = "new_client", !.service = service]
           /\ IF parsed.err # "none"
              THEN /\ env' = NoEnv
                   /\ built' = parsed.err
                   /\ container' = NoContainer
                   /\ calls' = <<>>
                   /\ mergeCalls' = <<>>
                   /\ client' = NoClient
              ELSE \E e0 \in EnvsFor(parsed.arn, collect) :
                   \E k \in 0..NumCalls(e0, TRUE) :
                     LET e == [e0 EXCEPT !.fail = k]
                         r == PolicyContainerInit(e, TRUE)
                     IN
                       /\ env' = e
                       /\ built' = r.built
                       /\ container' = r.container
                       /\ calls' = r.calls
                       /\ mergeCalls' = r.mergeCalls
                       /\ client' = IF r.built = "ok" THEN [service |-> service]
                                    ELSE NoClient
    /\ oracleLog' = <<>>
    /\ prevDisp' = NoPrev
    /\ UNCHANGED <<arnVars, mergeVars, regionVars>>

\* PolicyContainer.simulate(actions, **sim_args) on a container built directly
Simulate ==
    /\ built = "ok"
    /\ client = NoClient
    /\ \E actions \in ActionLists, sim_args \in SimArgChoices :
       \E resp \in OracleResponses(Len(actions)) :
         LET r == simulate_return(resp) IN
           /\ oracleLog' = <<simulate_request(container, actions, sim_args)>>
           /\ op' = [OpIdle EXCEPT !.kind = "simulate", !.actions = actions,
                                   !.sim_args = sim_args, !.resp = resp,
                                   !.err = r.err, !.ret = r.ret]
    /\ UNCHANGED <<env, built, container, calls, mergeCalls, client, prevDisp,
                   arnVars, mergeVars, regionVars>>

\* client.<operation>(*args, **kwargs) on a SimulatedClient
Dispatch ==
    /\ client # NoClient
    /\ \E operation \in OperationNames, a \in ArgChoices :
         LET call == simulate_api(client.service, operation, a) IN
           IF call.err # "none"
           THEN /\ oracleLog' = <<>>
                /\ op' = [OpIdle EXCEPT !.kind = "dispatch", !.service = client.service,
                                        !.operation = operation, !.args = a,
                                        !.err = call.err]
           ELSE \E resp \in OracleResponses(Len(call.actions)) :
                  LET req == simulate_request(container, call.actions, call.sim_args)
                      r   == simulate_return(resp)
                  IN /\ oracleLog' = <<req>>
                     /\ op' = [OpIdle EXCEPT !.kind = "dispatch", !.service = client.service,
                                             !.operation = operation, !.args = a,
                                             !.actions = call.actions,
                                             !.sim_args = call.sim_args, !.resp = resp,
                                             !.err = r.err, !.ret = r.ret]
    /\ prevDisp' = IF op.kind = "dispatch" /\ Len(oracleLog) = 1
                   THEN [operation |-> op.operation, args |-> op.args, req |-> oracleLog[1]]
                   ELSE prevDisp
    /\ UNCHANGED <<env, built, container, calls, mergeCalls, client,
                   arnVars, mergeVars, regionVars>>

Next == Construct \/ NewSimulatedClient \/ Simulate \/ Dispatch

Spec == Init /\ [][Next]_vars

(***************************************************************************)
(* Properties.  The expected values below are stated by themselves, not    *)
(* through the operators that model the code.                              *)
(***************************************************************************)
\* the documents of every group, attached before inline, group after group
RECURSIVE ExpectedGroupPolicies(_)
ExpectedGroupPolicies(grps) ==
    IF grps = <<>> THEN <<>>
    ELSE Head(grps).attached \o Head(grps).inline \o ExpectedGroupPolicies(Tail(grps))

\* what a JSON text of a document denotes: the value after the "Version" key,
\* and the values between the brackets of the "Statement" array
Denoted(text) ==
    [type |-> "dict",
     Version |-> text[FindFrom(text, "Version", 1) + 2],
     Statement |-> SubSeq(text, FindFrom(text, "[", 1) + 1, FindFrom(text, "]", 1) - 1)]

\* the statements of a document; a text document counts as the dict it denotes
StatementsOf(p) ==
    IF p.type = "dict" THEN p.Statement ELSE Denoted(p.text).Statement

\* the statements of a list of documents, in order
RECURSIVE ExpectedStatements(_)
ExpectedStatements(docs) ==
    IF docs = <<>> THEN <<>>
    ELSE StatementsOf(Head(docs)) \o ExpectedStatements(Tail(docs))

\* the canonical string of an identity
CanonicalArn(a) ==
    Join(<<a.prefix, a.partition, a.service, a.region, a.account_id,
           a.resource_type \o <<"/">> \o a.resource_id>>, ":")

\* the restrict-side candidates of a construction
Candidates(e) ==
    (IF e.boundary = NoDoc THEN <<>> ELSE <<e.boundary>>)
      \o (IF e.collect_scps THEN e.scps ELSE <<>>)

\* C1: after a successful construction the allow-side list is the attached,
\* then the inline, then the group policy documents of the principal (none for
\* a role; for a user, those of every group it belongs to).
C1_AllowSideIncludesGroups ==
    built = "ok" =>
      container.policies =
        env.attached \o env.inline
          \o (IF env.arn.resource_type = S_user
              THEN ExpectedGroupPolicies(env.groups) ELSE <<>>)

\* C2: the SCP fetch is issued for the identity's account_id when that is
\* non-empty, else for the caller's own account number, and never for an empty
\* account id.
C2_ScpFetchAccount ==
    \A i \in 1..Len(calls) :
      calls[i].api = "list_policies_for_target" =>
        /\ calls[i].target # <<>>
        /\ calls[i].target = (IF env.arn.account_id # <<>> THEN env.arn.account_id
                              ELSE env.account_number)

\* C3: after a successful construction the restrict-side value is None exactly
\* when there is no candidate (boundary, then SCPs when collected); otherwise
\* it is the one document merging the candidates; merge is never invoked on an
\* empty list; and a principal with no policy at all, no boundary and SCP
\* collection off yields [] and None.
C3_RestrictSide ==
    built = "ok" =>
      /\ container.negative_policies.is_none <=> (Candidates(env) = <<>>)
      /\ ~container.negative_policies.is_none =>
           /\ Len(container.negative_policies.list) = 1
           /\ container.negative_policies.list[1].Version = "2012-10-17"
           /\ container.negative_policies.list[1].Statement
                = ExpectedStatements(Candidates(env))
      /\ \A i \in 1..Len(mergeCalls) : mergeCalls[i] # <<>>
      /\ ( /\ env.attached = <<>> /\ env.inline = <<>>
           /\ ExpectedGroupPolicies(env.groups) = <<>>
           /\ env.boundary = NoDoc /\ ~env.collect_scps )
           => /\ container.policies = <<>>
              /\ container.negative_policies.is_none

C3_Witness ==
    /\ built = "ok"
    /\ env.boundary # NoDoc /\ env.collect_scps /\ Len(env.scps) = 2
    /\ ~container.negative_policies.is_none
    /\ Len(container.negative_policies.list[1].Statement) = 5

\* C4: merge_policy_dicts returns Version "2012-10-17" and, as Statement, the
\* statements of the input documents concatenated in input order (text
\* documents deserialized), nothing dropped, merged or reordered; the empty
\* list gives an empty Statement.
C4_MergeConcatenates ==
    mergePc = "done" =>
      /\ mergeOut.type = "dict"
      /\ mergeOut.Version = "2012-10-17"
      /\ mergeOut.Statement = ExpectedStatements(mergeIn)
      /\ mergeIn = <<>> => mergeOut.Statement = <<>>

C4_Witness ==
    /\ mergePc = "done"
    /\ Len(mergeIn) = 2
    /\ mergeIn[1].type = "str" /\ mergeIn[2].type = "dict"
    /\ mergeIn[2].Version = "2008-10-17"
    /\ mergeOut.Statement = <<"stmtB", "stmtA", "stmtA", "stmtA">>

\* C5: a simulate call sends exactly one request: one serialized entry per
\* stored allow policy in stored order, no restrict entry when the stored
\* value is None and exactly one otherwise, the given actions unchanged, the
\* canonical string of the identity as caller; it returns the decision of the
\* first evaluation result unchanged.
C5_SimulateRequest ==
    op.kind = "simulate" =>
      /\ Len(oracleLog) = 1
      /\ LET q == oracleLog[1] IN
           /\ Len(q.PolicyInputList) = Len(container.policies)
           /\ \A i \in 1..Len(container.policies) :
                Denoted(q.PolicyInputList[i]) = container.policies[i]
           /\ Len(q.PermissionsBoundaryPolicyInputList)
                = (IF container.negative_policies.is_none THEN 0 ELSE 1)
           /\ \A i \in 1..Len(q.PermissionsBoundaryPolicyInputList) :
                Denoted(q.PermissionsBoundaryPolicyInputList[i])
                  = container.negative_policies.list[i]
           /\ q.ActionNames = op.actions
           /\ q.CallerArn = CanonicalArn(container.arn)
      /\ (op.resp.err = "none" /\ Len(op.resp.results) > 0)
           => (op.err = "none" /\ op.ret = op.resp.results[1])
      /\ op.err = "none" => op.ret = op.resp.results[1]

C5_Witness ==
    /\ op.kind = "simulate"
    /\ Len(container.policies) = 3
    /\ ~container.negative_policies.is_none
    /\ Len(op.actions) = 2
    /\ op.ret = "implicitDeny"
    /\ op.resp.results[2] = "allowed"

\* C6: for an identity whose resource_type is neither "user" nor "role" the
\* construction ends in NotImplementedError, yields no container, and has
\* sent no request by then: no policy, group, boundary or SCP fetch, no merge
\* and no simulate.
C6_UnsupportedTypeFailsFirst ==
    (env # NoEnv /\ env.arn.resource_type \notin {S_user, S_role}) =>
      /\ built = "NotImplementedError"
      /\ container = NoContainer
      /\ client = NoClient
      /\ calls = <<>>
      /\ mergeCalls = <<>>
      /\ oracleLog = <<>>

C6_Witness ==
    /\ env # NoEnv
    /\ env.arn.resource_type = S_assumed_role
    /\ env.attached # <<>> /\ env.boundary # NoDoc /\ env.collect_scps
    /\ built = "NotImplementedError"

\* C7: a dispatched operation that the provider maps to API name A sends
\* exactly one request, for the actions ["<service lower-cased>:<A>"], and
\* returns its decision unchanged; the request is the same whatever the
\* arguments: it equals the request of the previous call of that operation.
C7_DispatchRequest ==
    ( /\ op.kind = "dispatch"
      /\ op.service \in KnownServices
      /\ op.operation \in DOMAIN MethodToApiMapping(op.service) ) =>
      /\ Len(oracleLog) = 1
      /\ oracleLog[1].ActionNames
           = << Lower(op.service) \o <<":">> \o MethodToApiMapping(op.service)[op.operation] >>
      /\ (op.service = S_ec2 /\ op.operation = "describe_instances")
           => oracleLog[1].ActionNames = <<A_Ec2Describe>>
      /\ op.resp.err = "none" => (op.err = "none" /\ op.ret = op.resp.results[1])
      /\ prevDisp.operation = op.operation => prevDisp.req = oracleLog[1]

C7_Witness ==
    /\ op.kind = "dispatch"
    /\ op.service = S_ec2 /\ op.operation = "describe_instances"
    /\ op.args.kwargs # {}
    /\ prevDisp.operation = op.operation
    /\ prevDisp.args.args # <<>>
    /\ op.ret = "implicitDeny"

\* the positions of the ':' of a string, and its k-th ':'-delimited part
Colons(s) == {i \in 1..Len(s) : s[i] = ":"}
ColonAt(s, k) ==
    IF k = 0 THEN 0
    ELSE IF k > Cardinality(Colons(s)) THEN Len(s) + 1
    ELSE CHOOSE i \in Colons(s) : Cardinality({j \in Colons(s) : j <= i}) = k
Part(s, k) == SubSeq(s, ColonAt(s, k - 1) + 1, ColonAt(s, k) - 1)

SixParts(s) == Cardinality(Colons(s)) = 5
SixPartsNoSlash(s)   == SixParts(s) /\ ~Contains(Part(s, 6), "/")
SixPartsWithSlash(s) == SixParts(s) /\ Contains(Part(s, 6), "/")

\* the resource_type of a 6th part type/id: what precedes its first '/'
TypeOf(s) == SubSeq(Part(s, 6), 1, FindFrom(Part(s, 6), "/", 1) - 1)
LowerCased(t) == \A i \in 1..Len(t) : t[i] \notin DOMAIN UpperToLower

\* C8: a string of exactly 6 ':'-delimited parts whose 6th part has no '/'
\* parses without error to an ARN with an empty resource_id and the first
\* five parts as prefix, partition, service, region and account_id, so its
\* rendering carries the same partition, service, region and account.
C8_NoSlashParses ==
    (arnPc # "input" /\ SixPartsNoSlash(arnIn)) =>
      /\ arnPc \in {"parsed", "rendered"}
      /\ arnObj.resource_id = <<>>
      /\ arnObj.prefix = Part(arnIn, 1)
      /\ arnObj.partition = Part(arnIn, 2)
      /\ arnObj.service = Part(arnIn, 3)
      /\ arnObj.region = Part(arnIn, 4)
      /\ arnObj.account_id = Part(arnIn, 5)
      /\ arnPc = "rendered" =>
           \A k \in 2..5 : Part(arnOut, k) = Part(arnIn, k)

\* C9 as stated: every string of 6 parts whose 6th part is type/id parses and
\* renders back to itself.
C9_RoundTrip ==
    (arnPc # "input" /\ SixPartsWithSlash(arnIn)) =>
      /\ arnPc \in {"parsed", "rendered"}
      /\ arnPc = "rendered" => arnOut = arnIn

\* C9, amended: every string of 6 parts whose 6th part is type/id, with a
\* type that lower-casing leaves unchanged, parses and renders back to
\* itself; "arn:aws:iam::123456789012:role/MyRole" parses to the fields
\* arn, aws, iam, "", 123456789012, role, MyRole and renders back to itself.
C9_RoundTripLowerType ==
    /\ (arnPc # "input" /\ SixPartsWithSlash(arnIn) /\ LowerCased(TypeOf(arnIn))) =>
         /\ arnPc \in {"parsed", "rendered"}
         /\ arnPc = "rendered" => arnOut = arnIn
    /\ (arnPc # "input" /\ arnIn = ExampleArn) =>
         /\ arnPc \in {"parsed", "rendered"}
         /\ arnObj = [prefix |-> S_arn, partition |-> S_aws, service |-> S_iam,
                      region |-> <<>>,
                      account_id |-> <<"1","2","3","4","5","6","7","8","9","0","1","2">>,
                      resource_type |-> S_role,
                      resource_id |-> <<"M","y","R","o","l","e">>]
         /\ arnPc = "rendered" => arnOut = ExampleArn

C9_Witness ==
    /\ arnPc = "rendered"
    /\ SixPartsWithSlash(arnIn)
    /\ TypeOf(arnIn) = S_role
    /\ arnObj.resource_id = <<"p", "/", "a">>
    /\ arnOut = arnIn

\* C10: is_region_available returns True when the identity call succeeds,
\* False when it fails with ClientError, and propagates any other error.
C10_RegionProbe ==
    regionRet # "none" =>
      /\ stsOutcome = "ok" => regionRet = "True"
      /\ stsOutcome = "ClientError" => regionRet = "False"
      /\ stsOutcome = "OtherError" => regionRet = "OtherError"

====
